---- MODULE Spec2Model ----
(***************************************************************************)
(* Horde3D pipeline resource (egPipeline.cpp): compilation of a pipeline   *)
(* description into stages and commands, the life cycle of the GPU render  *)
(* buffers behind the declared render targets, and the registry of         *)
(* externally supplied pipeline commands.                                  *)
(*                                                                         *)
(* Text is modelled as sequences of ASCII character codes, so that         *)
(* _stricmp, atoi and toFloat are computed from the characters.  Floats    *)
(* are fixed-point numbers counted in quarters (1.0 is 4).  A pointer to a *)
(* render target is its 1-based position in _renderTargets, 0 is null.     *)
(***************************************************************************)
EXTENDS Integers, Sequences, FiniteSets, TLC

\* ------------------------------------------------------------- bounds ----
MaxTargets == 2      \* RenderTarget nodes in a Setup section
MaxStages == 2       \* Stage nodes in a CommandQueue section
MaxCmds == 2         \* command nodes in a Stage
MaxRegistered == 2   \* calls of registerPipelineCommand in one run

\* ---------------------------------------------------- program constants --
DefaultBaseWidth == 320
DefaultBaseHeight == 240
Config_sampleCount == 0
NoExternalCommand == -1

\* -------------------------------------------------------------- text -----
\* The printable ASCII characters in code order, from the space (code 32);
\* the quotes and the backslash go by their names.
Ascii == <<" ","!","dquote","#","$","%","&","squote","(",")","*","+",",","-",".","/",
           "0","1","2","3","4","5","6","7","8","9",":",";","<","=",">","?",
           "@","A","B","C","D","E","F","G","H","I","J","K","L","M","N","O",
           "P","Q","R","S","T","U","V","W","X","Y","Z","[","bslash","]","^","_",
           "bquote","a","b","c","d","e","f","g","h","i","j","k","l","m","n","o",
           "p","q","r","s","t","u","v","w","x","y","z","{","|","}","~">>

\* The text with the given characters, as the sequence of their codes.
Text(chars) ==
    [i \in 1..Len(chars) |-> 31 + CHOOSE k \in 1..Len(Ascii) : Ascii[k] = chars[i]]

\* The value getAttribute returns for an attribute the node does not have.
NULL == <<0>>

\* tolower: 'A'..'Z' (65..90) to 'a'..'z'
tolower(c) == IF c \in 65..90 THEN c + 32 ELSE c

\* _stricmp( a, b ) == 0
stricmp0(a, b) ==
    /\ Len(a) = Len(b)
    /\ \A i \in 1..Len(a) : tolower(a[i]) = tolower(b[i])

\* strcmp( a, b ) == 0
strcmp0(a, b) == a = b

\* '0'..'9' are 48..57, '.' is 46
IsDigit(c) == c \in 48..57
DigitVal(c) == c - 48

\* Length of the longest prefix of s[from..] made of digits.
RECURSIVE DigitRun(_, _)
DigitRun(s, from) ==
    IF from <= Len(s) /\ IsDigit(s[from]) THEN 1 + DigitRun(s, from + 1) ELSE 0

RECURSIVE DigitsValue(_, _, _)
DigitsValue(s, from, n) ==
    IF n = 0 THEN 0
    ELSE 10 * DigitsValue(s, from, n - 1) + DigitVal(s[from + n - 1])

RECURSIVE Pow10(_)
Pow10(n) == IF n = 0 THEN 1 ELSE 10 * Pow10(n - 1)

\* atoi: the leading run of digits, 0 when there is none (unsigned texts only).
atoi(s) == DigitsValue(s, 1, DigitRun(s, 1))

\* toFloat: digits, optionally "." and digits; the result counted in quarters.
toFloat(s) ==
    LET n == DigitRun(s, 1)
        hasFrac == n + 1 <= Len(s) /\ s[n + 1] = 46
        m == IF hasFrac THEN DigitRun(s, n + 2) ELSE 0
    IN  4 * DigitsValue(s, 1, n) + (4 * DigitsValue(s, n + 2, m)) \div Pow10(m)

\* ftoi_r: round to the nearest integer, halves to the even neighbour.
\* The argument is counted in quarters.
ftoi_r(q) ==
    LET fl == q \div 4
        rem == q % 4
    IN  IF rem < 2 THEN fl
        ELSE IF rem > 2 THEN fl + 1
        ELSE IF fl % 2 = 0 THEN fl ELSE fl + 1

Min(a, b) == IF a < b THEN a ELSE b


\* ------------------------------------------------- description nodes -----
AttrNames == <<"id", "depthBuf", "numColBufs", "format", "maxSamples", "width",
               "height", "scale", "enabled", "target", "sampler", "sourceRT",
               "bufIndex", "colBuf0", "colBuf1", "colBuf2", "colBuf3",
               "context", "order", "material", "noShadows", "uniform",
               "col_R", "col_G", "col_B", "col_A", "a", "b", "c", "d">>

\* An XML element: its name, its attributes as a list of <<name, value>> pairs
\* and its child elements in document order.  given is a record of the
\* attributes; a field that is NULL stands for an attribute left out.
XMLNode(name, given, children) ==
    LET present == SelectSeq(AttrNames,
                       LAMBDA a : a \in DOMAIN given /\ given[a] # NULL)
    IN  [name |-> name,
         attrs |-> [i \in 1..Len(present) |-> <<present[i], given[present[i]]>>],
         children |-> children]

\* node.getAttribute( name ): the value, or a null pointer
getAttribute(node, a) ==
    IF \E i \in 1..Len(node.attrs) : node.attrs[i][1] = a
    THEN node.attrs[CHOOSE i \in 1..Len(node.attrs) : node.attrs[i][1] = a][2]
    ELSE NULL
\* node.getAttribute( name, defValue )
getAttributeDef(node, a, def) ==
    IF getAttribute(node, a) = NULL THEN def ELSE getAttribute(node, a)

\* ------------------------------------------------ command parameters -----
\* PipeCmdParam: one slot per kind of value; a setter fills its own slot.
PipeCmdParam == [f |-> 0, i |-> 0, b |-> FALSE, ptr |-> 0, str |-> <<>>]
setBool(b) == [PipeCmdParam EXCEPT !.b = b]
setInt(i) == [PipeCmdParam EXCEPT !.i = i]
setFloat(f) == [PipeCmdParam EXCEPT !.f = f]
setPtr(p) == [PipeCmdParam EXCEPT !.ptr = p]
setString(s) == [PipeCmdParam EXCEPT !.str = s]
\* a material resource is identified by its name
setResource(s) == [PipeCmdParam EXCEPT !.str = s]

\* PipelineCommand( kind ): no parameters, externalCommandID = -1.  parsedBy
\* and parsedAmong are history fields: the registration number of the registry
\* entry whose parse callback populated the command (0: none), and the number
\* of entries the registry held then.
PipelineCommand(kind) ==
    [kind |-> kind, externalCommandID |-> NoExternalCommand, params |-> <<>>,
     parsedBy |-> 0, parsedAmong |-> 0]

\* --------------------------------------------------- command registry ----
\* The callbacks extensions hand to registerPipelineCommand.  A parse callback
\* returns "" for success and a message otherwise: pfAny accepts every node,
\* pfNeedsContext wants a context attribute.
ParseFuncs == {"pfAny", "pfNeedsContext"}
ExecFuncs == {"efA", "efB"}

CallParseFunc(pf, xmlData) ==
    IF pf = "pfAny" \/ getAttribute(xmlData, "context") # NULL THEN ""
    ELSE "Missing attribute 'context'"

\* A registry that puts a new entry in front of the others: the indices of the
\* entries registered before move by one.
registerPipelineCommand_atFront(reg, commandName, pf, ef) ==
    <<[comNameString |-> commandName, parseFunc |-> pf,
       executeFunc |-> ef, uid |-> Len(reg) + 1]>> \o reg

\* registerPipelineCommand: the entry is appended.  uid is a history field,
\* the number of the registration.
registerPipelineCommand(reg, commandName, pf, ef) ==
    Append(reg, [comNameString |-> commandName, parseFunc |-> pf,
                 executeFunc |-> ef, uid |-> Len(reg) + 1])

registeredCommandsCount(reg) == Len(reg)

\* parseCommand: the first entry with that name parses the node; on success the
\* command records the entry's 0-based index.  success is the in/out flag.
RECURSIVE parseCommandFrom(_, _, _, _, _, _)
parseCommandFrom(reg, i, commandName, xmlData, cmd, success) ==
    IF i > Len(reg)
    THEN [msg |-> "", cmd |-> cmd, success |-> success]
    ELSE IF reg[i].comNameString = commandName
         THEN LET msg == CallParseFunc(reg[i].parseFunc, xmlData)
                  populated == [cmd EXCEPT !.parsedBy = reg[i].uid,
                                            !.parsedAmong = Len(reg)]
              IN  IF msg = ""
                  THEN [msg |-> msg,
                        cmd |-> [populated EXCEPT !.externalCommandID = i - 1],
                        success |-> success]
                  ELSE [msg |-> msg, cmd |-> populated, success |-> FALSE]
         ELSE parseCommandFrom(reg, i + 1, commandName, xmlData, cmd, success)

parseCommand(reg, commandName, xmlData, cmd, success) ==
    parseCommandFrom(reg, 1, commandName, xmlData, cmd, success)

\* executeCommand: which entry's execute callback runs ("none" when the command
\* has no registry index, "invalid" when the index is outside the registry).
executeCommand(reg, command) ==
    IF command.externalCommandID = NoExternalCommand
    THEN [called |-> "none", uid |-> 0]
    ELSE IF command.externalCommandID + 1 \in 1..Len(reg)
         THEN [called |-> reg[command.externalCommandID + 1].executeFunc,
               uid |-> reg[command.externalCommandID + 1].uid]
         ELSE [called |-> "invalid", uid |-> 0]

\* ------------------------------------------------------ text literals ----
S_true == Text(<<"t","r","u","e">>)
S_false == Text(<<"f","a","l","s","e">>)
S_0 == Text(<<"0">>)
S_1 == Text(<<"1">>)
S_empty == <<>>
S_RGBA8 == Text(<<"R","G","B","A","8">>)
S_RGBA16F == Text(<<"R","G","B","A","1","6","F">>)
S_RGBA32F == Text(<<"R","G","B","A","3","2","F">>)
S_FRONT_TO_BACK == Text(<<"F","R","O","N","T","_","T","O","_","B","A","C","K">>)
S_BACK_TO_FRONT == Text(<<"B","A","C","K","_","T","O","_","F","R","O","N","T">>)
S_NONE == Text(<<"N","O","N","E">>)

\* ------------------------------------------------------ render targets ---
\* addRenderTarget: the new target is appended, its render buffer not yet made.
addRenderTarget(rts, id, depthBuf, numColBufs, format, samples, width, height, scale) ==
    Append(rts, [id |-> id, hasDepthBuf |-> depthBuf, numColBufs |-> numColBufs,
                 format |-> format, samples |-> samples, width |-> width,
                 height |-> height, scale |-> scale, rendBuf |-> 0])

\* findRenderTarget: the first target with that id, null for "" or no match.
findRenderTarget(rts, id) ==
    IF id = S_empty THEN 0
    ELSE IF \E i \in 1..Len(rts) : rts[i].id = id
         THEN CHOOSE i \in 1..Len(rts) :
                  rts[i].id = id /\ \A j \in 1..(i - 1) : rts[j].id # id
         ELSE 0

\* ---------------------------------------------------------- parseStage ---
\* The order attribute of DrawGeometry and DoForwardLightLoop, as a
\* RenderingOrder: None 0, FrontToBack 1, BackToFront 2, StateChanges 3.
RenderingOrder(orderStr) ==
    IF stricmp0(orderStr, S_FRONT_TO_BACK) THEN 1
    ELSE IF stricmp0(orderStr, S_BACK_TO_FRONT) THEN 2
    ELSE IF stricmp0(orderStr, S_NONE) THEN 0
    ELSE 3

\* The depthBuf / colBufN test of ClearTarget.
ClearFlag(node1, a) ==
    \/ stricmp0(getAttributeDef(node1, a, S_false), S_true)
    \/ stricmp0(getAttributeDef(node1, a, S_0), S_1)

WithParams(kind, params) == [PipelineCommand(kind) EXCEPT !.params = params]

\* A SwitchTarget branch that reads a target left out as an empty one.
parseSwitchTarget_optionalTarget(node1, rts) ==
    LET target == getAttributeDef(node1, "target", S_empty)
        renderTarget == IF target # S_empty THEN findRenderTarget(rts, target) ELSE 0
    IN  IF target # S_empty /\ renderTarget = 0
        THEN [msg |-> "Reference to undefined render target in SwitchTarget",
              push |-> <<>>]
        ELSE [msg |-> "",
              push |-> <<WithParams("SwitchTarget", <<setPtr(renderTarget)>>)>>]

\* The SwitchTarget branch of parseStage.
parseSwitchTarget(node1, rts) ==
    IF getAttribute(node1, "target") = NULL
    THEN [msg |-> "Missing SwitchTarget attribute 'target'", push |-> <<>>]
    ELSE LET renderTarget ==
                 IF getAttribute(node1, "target") # S_empty
                 THEN findRenderTarget(rts, getAttribute(node1, "target"))
                 ELSE 0
         IN  IF getAttribute(node1, "target") # S_empty /\ renderTarget = 0
             THEN [msg |-> "Reference to undefined render target in SwitchTarget",
                   push |-> <<>>]
             ELSE [msg |-> "",
                   push |-> <<WithParams("SwitchTarget", <<setPtr(renderTarget)>>)>>]

\* One turn of the command loop of parseStage: the message returned ("" to go
\* on) and the commands pushed to the stage.
ParseCommandNode(node1, rts, reg) ==
    CASE node1.name = "SwitchTarget" -> parseSwitchTarget(node1, rts)
      [] node1.name = "BindBuffer" ->
           IF \/ getAttribute(node1, "sampler") = NULL
              \/ getAttribute(node1, "sourceRT") = NULL
              \/ getAttribute(node1, "bufIndex") = NULL
           THEN [msg |-> "Missing BindBuffer attribute", push |-> <<>>]
           ELSE LET renderTarget == findRenderTarget(rts, getAttribute(node1, "sourceRT"))
                IN  IF renderTarget = 0
                    THEN [msg |-> "Reference to undefined render target in BindBuffer",
                          push |-> <<>>]
                    ELSE [msg |-> "",
                          push |-> <<WithParams("BindBuffer",
                                       <<setPtr(renderTarget),
                                         setString(getAttribute(node1, "sampler")),
                                         setInt(atoi(getAttribute(node1, "bufIndex")))>>)>>]
      [] node1.name = "UnbindBuffers" ->
           [msg |-> "", push |-> <<PipelineCommand("UnbindBuffers")>>]
      [] node1.name = "ClearTarget" ->
           [msg |-> "",
            push |-> <<WithParams("ClearTarget",
                         <<setBool(ClearFlag(node1, "depthBuf")),
                           setBool(ClearFlag(node1, "colBuf0")),
                           setBool(ClearFlag(node1, "colBuf1")),
                           setBool(ClearFlag(node1, "colBuf2")),
                           setBool(ClearFlag(node1, "colBuf3")),
                           setFloat(toFloat(getAttributeDef(node1, "col_R", S_0))),
                           setFloat(toFloat(getAttributeDef(node1, "col_G", S_0))),
                           setFloat(toFloat(getAttributeDef(node1, "col_B", S_0))),
                           setFloat(toFloat(getAttributeDef(node1, "col_A", S_0)))>>)>>]
      [] node1.name = "DrawGeometry" ->
           IF getAttribute(node1, "context") = NULL
           THEN [msg |-> "Missing DrawGeometry attribute 'context'", push |-> <<>>]
           ELSE [msg |-> "",
                 push |-> <<WithParams("DrawGeometry",
                              <<setString(getAttribute(node1, "context")),
                                setInt(0),
                                setInt(RenderingOrder(
                                    getAttributeDef(node1, "order", S_empty)))>>)>>]
      [] node1.name = "DrawQuad" ->
           IF getAttribute(node1, "material") = NULL
           THEN [msg |-> "Missing DrawQuad attribute 'material'", push |-> <<>>]
           ELSE IF getAttribute(node1, "context") = NULL
           THEN [msg |-> "Missing DrawQuad attribute 'context'", push |-> <<>>]
           ELSE [msg |-> "",
                 push |-> <<WithParams("DrawQuad",
                              <<setResource(getAttribute(node1, "material")),
                                setString(getAttribute(node1, "context"))>>)>>]
      [] node1.name = "DoForwardLightLoop" ->
           [msg |-> "",
            push |-> <<WithParams("DoForwardLightLoop",
                         <<setString(getAttributeDef(node1, "context", S_empty)),
                           setInt(0),
                           setBool(stricmp0(getAttributeDef(node1, "noShadows", S_false),
                                            S_true)),
                           setInt(RenderingOrder(
                               getAttributeDef(node1, "order", S_empty)))>>)>>]
      [] node1.name = "DoDeferredLightLoop" ->
           [msg |-> "",
            push |-> <<WithParams("DoDeferredLightLoop",
                         <<setString(getAttributeDef(node1, "context", S_empty)),
                           setBool(stricmp0(getAttributeDef(node1, "noShadows", S_false),
                                            S_true))>>)>>]
      [] node1.name = "SetUniform" ->
           IF getAttribute(node1, "material") = NULL
           THEN [msg |-> "Missing SetUniform attribute 'material'", push |-> <<>>]
           ELSE IF getAttribute(node1, "uniform") = NULL
           THEN [msg |-> "Missing SetUniform attribute 'uniform'", push |-> <<>>]
           ELSE [msg |-> "",
                 push |-> <<WithParams("SetUniform",
                              <<setResource(getAttribute(node1, "material")),
                                setString(getAttribute(node1, "uniform")),
                                setFloat(toFloat(getAttributeDef(node1, "a", S_0))),
                                setFloat(toFloat(getAttributeDef(node1, "b", S_0))),
                                setFloat(toFloat(getAttributeDef(node1, "c", S_0))),
                                setFloat(toFloat(getAttributeDef(node1, "d", S_0)))>>)>>]
      [] OTHER ->
           \* check commands in extensions
           IF registeredCommandsCount(reg) > 0
           THEN LET r == parseCommand(reg, node1.name, node1,
                                      PipelineCommand("ExternalCommand"), TRUE)
                IN  IF r.success
                    THEN [msg |-> "", push |-> <<r.cmd>>]
                    ELSE [msg |-> r.msg, push |-> <<>>]
           ELSE [msg |-> "", push |-> <<>>]

\* The command loop from child k on; the stage keeps what was pushed before a
\* failing node.
RECURSIVE parseStageFrom(_, _, _, _, _)
\* r is what the turn for child k returned.
parseStageTurn(r, node, k, stage, rts, reg) ==
    IF r.msg # ""
    THEN [msg |-> r.msg, stage |-> stage]
    ELSE parseStageFrom(node, k + 1,
                        [stage EXCEPT !.commands = @ \o r.push], rts, reg)

parseStageFrom(node, k, stage, rts, reg) ==
    IF k > Len(node.children)
    THEN [msg |-> "", stage |-> stage]
    ELSE parseStageTurn(ParseCommandNode(node.children[k], rts, reg),
                        node, k, stage, rts, reg)

\* parseStage: id and enabled flag from the Stage node, then its commands.
parseStage(node, rts, reg) ==
    LET enabled ==
            ~ (\/ stricmp0(getAttributeDef(node, "enabled", S_true), S_false)
               \/ stricmp0(getAttributeDef(node, "enabled", S_1), S_0))
        stage == [id |-> getAttributeDef(node, "id", S_empty), enabled |-> enabled,
                  commands |-> <<>>]
    IN  parseStageFrom(node, 1, stage, rts, reg)

\* ------------------------------------------------------ render device ----
\* The device owns the render buffers: live is the set of handles it has
\* returned and not yet destroyed.  created and destroyed log the calls of one
\* operation of the resource.  Handles are slot numbers from 1; the device
\* hands out the lowest free slot, so that a destroyed handle is used again.
NumHandles == MaxTargets + 1
Handles == 1..NumHandles

FreeHandle(live) == CHOOSE h \in Handles : h \notin live /\ \A g \in 1..(h - 1) : g \in live

\* rdi->createRenderBuffer: the device grants the request or refuses it; the
\* returned handle (0 when refused) is the last entry of created.
createRenderBuffer(dev, width, height, grant) ==
    LET h == IF grant /\ \E g \in Handles : g \notin dev.live
             THEN FreeHandle(dev.live) ELSE 0
    IN  [dev EXCEPT !.live = IF h = 0 THEN @ ELSE @ \cup {h},
                    !.created = Append(@, [width |-> width, height |-> height,
                                           handle |-> h])]

\* rdi->destroyRenderBuffer( h )
destroyRenderBuffer(dev, h) ==
    [dev EXCEPT !.live = @ \ {h},
                !.destroyed = Append(@, [handle |-> h, wasLive |-> h \in dev.live])]

\* ---------------------------------------------------- PipelineResource ---
\* A resource is [baseWidth, baseHeight, renderTargets, stages]; the operations
\* below take and return the pair [res, dev] of resource and device.

initDefault(res) ==
    [res EXCEPT !.baseWidth = DefaultBaseWidth, !.baseHeight = DefaultBaseHeight]

RECURSIVE releaseRenderTargetsFrom(_, _, _)
releaseRenderTargetsFrom(rts, i, dev) ==
    IF i > Len(rts) THEN dev
    ELSE releaseRenderTargetsFrom(rts, i + 1,
             IF rts[i].rendBuf # 0 THEN destroyRenderBuffer(dev, rts[i].rendBuf)
             ELSE dev)

\* releaseRenderTargets: every non-zero handle is destroyed and left in place.
releaseRenderTargets(s) ==
    [s EXCEPT !.dev = releaseRenderTargetsFrom(s.res.renderTargets, 1, s.dev)]

release(s) ==
    LET t == releaseRenderTargets(s)
    IN  [t EXCEPT !.res.renderTargets = <<>>, !.res.stages = <<>>]

\* A raiseError that restores the base resolution and keeps the rest.
raiseError_noRelease(s, msg) ==
    [res |-> initDefault(s.res), dev |-> s.dev, ok |-> FALSE, msg |-> msg]

\* raiseError: reset, log the message, return false.
raiseError(s, msg) ==
    LET t == release(s)
    IN  [res |-> initDefault(t.res), dev |-> t.dev, ok |-> FALSE, msg |-> msg]

\* The value load returns when nothing went wrong.
Loaded(s) == [res |-> s.res, dev |-> s.dev, ok |-> TRUE, msg |-> <<>>]

\* The size createRenderTargets asks of the device for one target.
RequestedWidth(rt, baseWidth) ==
    LET width == ftoi_r(rt.width * rt.scale)
    IN  IF width = 0 THEN ftoi_r(baseWidth * rt.scale) ELSE width

RequestedHeight(rt, baseHeight) ==
    LET height == ftoi_r(rt.height * rt.scale)
    IN  IF height = 0 THEN ftoi_r(baseHeight * rt.scale) ELSE height

\* createRenderTargets from target i on; resp[i] tells whether the device
\* grants the request for target i.  The loop stops at the first refusal.
RECURSIVE createRenderTargetsFrom(_, _, _)
\* dev2 is the device after the request for target i.
createRenderTargetsTurn(s, i, resp, dev2) ==
    LET rendBuf == dev2.created[Len(dev2.created)].handle
        res2 == [s.res EXCEPT !.renderTargets[i].rendBuf = rendBuf]
    IN  IF rendBuf = 0
        THEN [res |-> res2, dev |-> dev2, ok |-> FALSE]
        ELSE createRenderTargetsFrom([res |-> res2, dev |-> dev2], i + 1, resp)

createRenderTargetsFrom(s, i, resp) ==
    IF i > Len(s.res.renderTargets)
    THEN [res |-> s.res, dev |-> s.dev, ok |-> TRUE]
    ELSE createRenderTargetsTurn(s, i, resp,
             createRenderBuffer(s.dev,
                 RequestedWidth(s.res.renderTargets[i], s.res.baseWidth),
                 RequestedHeight(s.res.renderTargets[i], s.res.baseHeight),
                 resp[i]))

createRenderTargets(s, resp) == createRenderTargetsFrom(s, 1, resp)

\* The answers of the device to the requests of one createRenderTargets over n
\* targets: it grants them all, or refuses one of them (nothing is asked after
\* a refusal).
DeviceAnswers(n) ==
    {[i \in 1..MaxTargets |-> i # refused] : refused \in 1..(n + 1)}

\* The children of a node with a given name, in document order.
ChildNodes(node, name) == SelectSeq(node.children, LAMBDA c : c.name = name)

\* The Setup loop of load from RenderTarget node k on.
RECURSIVE parseSetupFrom(_, _, _)
parseSetupFrom(nodes, k, rts) ==
    IF k > Len(nodes) THEN [msg |-> "", rts |-> rts]
    ELSE LET node2 == nodes[k]
         IN  IF getAttribute(node2, "id") = NULL
             THEN [msg |-> "Missing RenderTarget attribute 'id'", rts |-> rts]
             ELSE IF getAttribute(node2, "depthBuf") = NULL
             THEN [msg |-> "Missing RenderTarget attribute 'depthBuf'", rts |-> rts]
             ELSE IF getAttribute(node2, "numColBufs") = NULL
             THEN [msg |-> "Missing RenderTarget attribute 'numColBufs'", rts |-> rts]
             ELSE IF /\ getAttribute(node2, "format") # NULL
                     /\ ~ stricmp0(getAttribute(node2, "format"), S_RGBA8)
                     /\ ~ stricmp0(getAttribute(node2, "format"), S_RGBA16F)
                     /\ ~ stricmp0(getAttribute(node2, "format"), S_RGBA32F)
             THEN [msg |-> "Unknown RenderTarget format", rts |-> rts]
             ELSE LET depth == stricmp0(getAttribute(node2, "depthBuf"), S_true)
                      format ==
                          IF getAttribute(node2, "format") = NULL THEN "BGRA8"
                          ELSE IF stricmp0(getAttribute(node2, "format"), S_RGBA8)
                          THEN "BGRA8"
                          ELSE IF stricmp0(getAttribute(node2, "format"), S_RGBA16F)
                          THEN "RGBA16F"
                          ELSE "RGBA32F"
                      maxSamples == atoi(getAttributeDef(node2, "maxSamples", S_0))
                  IN  parseSetupFrom(nodes, k + 1,
                          addRenderTarget(rts, getAttribute(node2, "id"), depth,
                              atoi(getAttribute(node2, "numColBufs")), format,
                              Min(maxSamples, Config_sampleCount),
                              atoi(getAttributeDef(node2, "width", S_0)),
                              atoi(getAttributeDef(node2, "height", S_0)),
                              toFloat(getAttributeDef(node2, "scale", S_1))))

\* A stage list that grows at its front.
pushStage_atFront(stages, stage) == <<stage>> \o stages

\* _stages.push_back( PipelineStage() ), with the stage as parseStage leaves it.
pushStage(stages, stage) == Append(stages, stage)

\* The CommandQueue loop of load from Stage node k on: a stage is pushed, then
\* parsed in place.
RECURSIVE parseQueueFrom(_, _, _, _, _)
\* r is what parseStage returned for Stage node k.
parseQueueTurn(r, nodes, k, stages, rts, reg) ==
    IF r.msg # ""
    THEN [msg |-> r.msg, stages |-> pushStage(stages, r.stage)]
    ELSE parseQueueFrom(nodes, k + 1, pushStage(stages, r.stage), rts, reg)

parseQueueFrom(nodes, k, stages, rts, reg) ==
    IF k > Len(nodes) THEN [msg |-> "", stages |-> stages]
    ELSE parseQueueTurn(parseStage(nodes[k], rts, reg), nodes, k, stages, rts, reg)

\* Resource::load, the base class part: the resource starts from its empty
\* defaults.
ResourceLoad(s) ==
    LET t == release(s)
    IN  [res |-> initDefault(t.res), dev |-> t.dev]

\* load, first part: the document and its Setup section.  setup is what the
\* Setup loop returned, setups the Setup children of the root.
loadSetupDone(s, setup) ==
    IF setup.msg # ""
    THEN raiseError([s EXCEPT !.res.renderTargets = setup.rts], <<setup.msg>>)
    ELSE Loaded([s EXCEPT !.res.renderTargets = setup.rts])

loadSetupNode(s, setups) ==
    IF setups = <<>> THEN Loaded(s)
    ELSE loadSetupDone(s, parseSetupFrom(ChildNodes(setups[1], "RenderTarget"), 1,
                                         s.res.renderTargets))

loadDocument(s, doc) ==
    IF doc.xmlError THEN raiseError(s, <<"XML parsing error">>)
    ELSE IF doc.root.name # "Pipeline"
    THEN raiseError(s, <<"Not a pipeline resource file">>)
    ELSE loadSetupNode(s, ChildNodes(doc.root, "Setup"))

loadSetup(s0, doc) == loadDocument(ResourceLoad(s0), doc)

\* load, second part: the CommandQueue section.  queue is what the Stage loop
\* returned, queues the CommandQueue children of the root.
loadQueueDone(s1, queue) ==
    IF queue.msg # ""
    THEN raiseError([s1 EXCEPT !.res.stages = queue.stages],
                    <<"Error in stage", queue.msg>>)
    ELSE Loaded([s1 EXCEPT !.res.stages = queue.stages])

loadQueueNode(s1, queues, reg) ==
    IF queues = <<>> THEN Loaded(s1)
    ELSE loadQueueDone(s1, parseQueueFrom(ChildNodes(queues[1], "Stage"), 1,
                                          s1.res.stages, s1.res.renderTargets, reg))

\* A load that creates the render targets before it parses the CommandQueue.
loadQueue_targetsFirst(s1, doc, reg) ==
    loadQueueNode(createRenderTargets(s1, [i \in 1..MaxTargets |-> TRUE]),
                  ChildNodes(doc.root, "CommandQueue"), reg)

loadQueue(s1, doc, reg) == loadQueueNode(s1, ChildNodes(doc.root, "CommandQueue"), reg)

\* load, third part: the render targets are created; c is what
\* createRenderTargets returned.
loadTargetsDone(c) ==
    IF ~ c.ok THEN raiseError(c, <<"Failed to create render target">>)
    ELSE Loaded(c)

loadTargets(s2, resp) == loadTargetsDone(createRenderTargets(s2, resp))

\* load up to the creation of the render targets; a is what the first part
\* returned.
loadCompileQueue(a, doc, reg) == IF ~ a.ok THEN a ELSE loadQueue(a, doc, reg)

loadCompile(s0, doc, reg) == loadCompileQueue(loadSetup(s0, doc), doc, reg)

\* load from the creation of the render targets on; c is what loadCompile
\* returned.
loadFinish(c, resp) == IF ~ c.ok THEN c ELSE loadTargets(c, resp)

\* PipelineResource::load
load(s0, doc, reg, resp) == loadFinish(loadCompile(s0, doc, reg), resp)

\* The number of render targets load asks the device for.
TargetsToCreate(c) == IF c.ok THEN Len(c.res.renderTargets) ELSE 0

\* PipelineResource::resize; ok is what createRenderTargets returned, which
\* resize drops.
resize(s, width, height, resp) ==
    createRenderTargets(
        releaseRenderTargets([s EXCEPT !.res.baseWidth = width,
                                       !.res.baseHeight = height]),
        resp)

\* getElemCount( StageElem ) and getElemParamStr( StageElem, i, StageNameStr )
getElemCount(res) == Len(res.stages)
getElemParamStr(res, elemIdx) ==
    IF elemIdx \in 0..(Len(res.stages) - 1) THEN res.stages[elemIdx + 1].id
    ELSE S_empty

\* -------------------------------------------------------- descriptions ---
S_TRUE == Text(<<"T","R","U","E">>)
S_quarter == Text(<<"0",".","2","5">>)
S_4 == Text(<<"4">>)
S_8 == Text(<<"8">>)
S_rgba16f == Text(<<"r","g","b","a","1","6","f">>)
S_R8 == Text(<<"R","8">>)
S_undeclared == Text(<<"Z">>)
S_sampler == Text(<<"b","u","f">>)
S_context == Text(<<"c","t","x">>)
S_material == Text(<<"m","a","t">>)

TargetId(k) == <<84, 48 + k>>    \* "T1", "T2", ...
StageId(k) == <<83, 48 + k>>     \* "S1", "S2", ...

RenderTargetNode(given) == XMLNode("RenderTarget", given, <<>>)
CommandNode(name, given) == XMLNode(name, given, <<>>)

\* A complete RenderTarget declaration sized from the base resolution.
BaseTarget(k) ==
    RenderTargetNode([id |-> TargetId(k), depthBuf |-> S_false, numColBufs |-> S_1])

\* Declarations with their own size or scale.
SizedTargets(k) ==
    <<RenderTargetNode([id |-> TargetId(k), depthBuf |-> S_false, numColBufs |-> S_1,
                        width |-> S_1, height |-> S_1, scale |-> S_quarter]),
      RenderTargetNode([id |-> TargetId(k), depthBuf |-> S_false, numColBufs |-> S_1,
                        width |-> S_4, height |-> S_8, scale |-> S_quarter]),
      RenderTargetNode([id |-> TargetId(k), depthBuf |-> S_false, numColBufs |-> S_1,
                        scale |-> S_quarter]),
      RenderTargetNode([id |-> TargetId(k), depthBuf |-> S_false, numColBufs |-> S_1,
                        width |-> S_4])>>

\* The texts a flag of the description is given as.
FlagTexts == <<S_true, S_TRUE, S_1, S_0, S_false>>

\* Declarations with other texts for depthBuf and format.
FlaggedTargets(k) ==
    [i \in 1..Len(FlagTexts) |->
        RenderTargetNode([id |-> TargetId(k), depthBuf |-> FlagTexts[i],
                          numColBufs |-> S_1])]
    \o <<RenderTargetNode([id |-> TargetId(k), depthBuf |-> S_false,
                           numColBufs |-> S_1, format |-> S_rgba16f])>>

\* Declarations load rejects.
BadTargets(k) ==
    <<RenderTargetNode([depthBuf |-> S_false, numColBufs |-> S_1]),
      RenderTargetNode([id |-> TargetId(k), numColBufs |-> S_1]),
      RenderTargetNode([id |-> TargetId(k), depthBuf |-> S_false]),
      RenderTargetNode([id |-> TargetId(k), depthBuf |-> S_false, numColBufs |-> S_1,
                        format |-> S_R8])>>

BaseSetup(n) == [k \in 1..n |-> BaseTarget(k)]

\* A Setup section that declares the same id twice, the second time with a
\* depth buffer.
RepeatedSetup ==
    <<BaseTarget(1),
      RenderTargetNode([id |-> TargetId(1), depthBuf |-> S_true, numColBufs |-> S_1])>>

\* Setup sections of 1 to MaxTargets declarations; the last one is a variant.
SetupsEndingIn(variants) ==
    LET m == Len(variants[1])
    IN  [i \in 1..(MaxTargets * m) |->
            LET n == ((i - 1) \div m) + 1
            IN  Append(BaseSetup(n - 1), variants[n][((i - 1) % m) + 1])]

Filler == CommandNode("UnbindBuffers", <<>>)

\* BindBuffer nodes with one required attribute left out.
MissingAttributes ==
    <<CommandNode("BindBuffer", [sourceRT |-> TargetId(1), bufIndex |-> S_0]),
      CommandNode("BindBuffer", [sampler |-> S_sampler, bufIndex |-> S_0]),
      CommandNode("BindBuffer", [sampler |-> S_sampler, sourceRT |-> TargetId(1)])>>

\* Command nodes load rejects whatever the registry holds.
BadCommands ==
    MissingAttributes \o
    <<CommandNode("SwitchTarget", [target |-> S_undeclared]),
      CommandNode("SwitchTarget", <<>>),
      CommandNode("BindBuffer", [sampler |-> S_sampler, sourceRT |-> S_undeclared,
                                 bufIndex |-> S_0]),
      CommandNode("DrawGeometry", <<>>),
      CommandNode("DrawQuad", [context |-> S_context]),
      CommandNode("SetUniform", [material |-> S_material])>>

\* Command nodes with a name that is no built-in command: Foo and Baz are names
\* extensions register, Bar is never registered.
ExternalCommands ==
    <<CommandNode("Foo", [context |-> S_context]),
      CommandNode("Foo", <<>>),
      CommandNode("Baz", <<>>),
      CommandNode("Bar", <<>>)>>

\* Commands the compiler accepts.
GoodCommands ==
    <<CommandNode("SwitchTarget", [target |-> S_empty]),
      CommandNode("SwitchTarget", [target |-> TargetId(1)]),
      CommandNode("BindBuffer", [sampler |-> S_sampler, sourceRT |-> TargetId(1),
                                 bufIndex |-> S_1]),
      CommandNode("ClearTarget", <<>>),
      CommandNode("ClearTarget", [colBuf0 |-> S_1, colBuf3 |-> S_TRUE,
                                  col_R |-> S_quarter]),
      CommandNode("DrawGeometry", [context |-> S_context, order |-> S_NONE]),
      CommandNode("DrawQuad", [material |-> S_material, context |-> S_context]),
      CommandNode("SetUniform", [material |-> S_material, uniform |-> S_sampler,
                                 a |-> S_1]),
      CommandNode("DoForwardLightLoop", <<>>),
      CommandNode("DoDeferredLightLoop", <<>>)>>
    \o [i \in 1..Len(FlagTexts) |-> CommandNode("ClearTarget", [depthBuf |-> FlagTexts[i]])]
    \o [i \in 1..Len(FlagTexts) |->
           CommandNode("DoForwardLightLoop", [noShadows |-> FlagTexts[i]])]
    \o [i \in 1..Len(FlagTexts) |->
           CommandNode("DoDeferredLightLoop", [noShadows |-> FlagTexts[i]])]

StageNode(k, children) == XMLNode("Stage", [id |-> StageId(k)], children)

\* n stages of one UnbindBuffers each.
BaseQueue(n) == [k \in 1..n |-> StageNode(k, <<Filler>>)]

\* Queues of MaxStages stages: stage n has MaxCmds commands, the first of them
\* varies, the others and those of the other stages are fillers.
StageAround(k, cmd) ==
    StageNode(k, [j \in 1..MaxCmds |-> IF j = 1 THEN cmd ELSE Filler])

QueueAround(n, cmd) ==
    [k \in 1..MaxStages |-> IF k = n THEN StageAround(k, cmd)
                            ELSE StageNode(k, <<Filler>>)]

QueuesAround(Commands) ==
    LET m == Len(Commands)
    IN  [i \in 1..(MaxStages * m) |->
            QueueAround(((i - 1) \div m) + 1, Commands[((i - 1) % m) + 1])]

\* A queue with an element that is no Stage between its stages.
AnnotatedQueue ==
    <<StageNode(1, <<Filler>>), XMLNode("Note", <<>>, <<>>), StageNode(2, <<>>)>>

Document(setup, queue) ==
    [xmlError |-> FALSE,
     root |-> XMLNode("Pipeline", <<>>,
                 <<XMLNode("Setup", <<>>, setup),
                   XMLNode("CommandQueue", <<>>, queue)>>)]

BrokenDocuments ==
    <<[xmlError |-> TRUE, root |-> XMLNode("Pipeline", <<>>, <<>>)],
      [xmlError |-> FALSE, root |-> XMLNode("Scene", <<>>, <<>>)],
      [xmlError |-> FALSE, root |-> XMLNode("Pipeline", <<>>, <<>>)]>>

WithQueue(setups, queue) == [i \in 1..Len(setups) |-> Document(setups[i], queue)]
WithSetup(setup, queues) == [i \in 1..Len(queues) |-> Document(setup, queues[i])]

\* The descriptions of the life-cycle specification: setups of every length,
\* queues of every length, own sizes, and failures of the setup and of a stage.
LifeDocuments ==
    WithQueue([n \in 1..(MaxTargets + 1) |-> BaseSetup(n - 1)], BaseQueue(1))
    \o WithSetup(BaseSetup(MaxTargets), [m \in 1..(MaxStages + 1) |-> BaseQueue(m - 1)])
    \o WithQueue(SetupsEndingIn([k \in 1..MaxTargets |-> SizedTargets(k)])
                 \o SetupsEndingIn([k \in 1..MaxTargets |-> BadTargets(k)]),
                 BaseQueue(1))
    \o WithSetup(BaseSetup(MaxTargets), QueuesAround(MissingAttributes))

\* The descriptions of the full specification: a good one with MaxTargets
\* targets, and one for every way load fails.
ErrorDocuments ==
    <<Document(BaseSetup(MaxTargets), BaseQueue(1))>>
    \o BrokenDocuments
    \o WithQueue([i \in 1..Len(BadTargets(1)) |->
                     Append(BaseSetup(MaxTargets - 1), BadTargets(MaxTargets)[i])],
                 BaseQueue(1))
    \o WithSetup(BaseSetup(MaxTargets),
                 QueuesAround(MissingAttributes \o ExternalCommands))

\* The descriptions of the compiler specification: one declared target, every
\* text of its flags, and every command node.
CompileDocuments ==
    WithQueue([i \in 1..Len(FlaggedTargets(1)) |-> <<FlaggedTargets(1)[i]>>],
              BaseQueue(MaxStages))
    \o WithQueue([i \in 1..Len(BadTargets(1)) |-> <<BadTargets(1)[i]>>], BaseQueue(1))
    \o WithSetup(BaseSetup(1),
                 QueuesAround(GoodCommands \o BadCommands \o ExternalCommands))
    \o WithSetup(BaseSetup(1), <<AnnotatedQueue, <<>>, BaseQueue(1)>>)
    \o BrokenDocuments
    \o <<Document(RepeatedSetup, BaseQueue(1))>>

\* The description files a resource can name, numbered from 1.
DocumentFiles == ErrorDocuments \o LifeDocuments \o CompileDocuments
ErrorFiles == 1..Len(ErrorDocuments)
LifeFiles == (Len(ErrorDocuments) + 1)..(Len(ErrorDocuments) + Len(LifeDocuments))
CompileFiles == (Len(ErrorDocuments) + Len(LifeDocuments) + 1)..Len(DocumentFiles)

\* What extensions register: a name with its two callbacks.
RegisterArgs ==
    {[name |-> "Foo", pf |-> "pfNeedsContext", ef |-> "efA"],
     [name |-> "Baz", pf |-> "pfAny", ef |-> "efB"]}

\* The base resolutions resize is called with.
ResizeArgs == {<<8, 4>>, <<1, 1>>}

\* ------------------------------------------------------------- state -----
VARIABLES
    registry,   \* _registeredCommands of the ExternalPipelineCommandsManager
    res,        \* the PipelineResource: baseWidth, baseHeight, renderTargets, stages
    dev,        \* the render device: live handles, calls of the last operation
    doc,        \* the number of the description file the resource is loaded from
    last        \* the last operation, its result, and the callback it ran

vars == <<registry, res, dev, doc, last>>

NoCall == [called |-> "none", uid |-> 0]
Outcome(op, ok, msg) ==
    [op |-> op, ok |-> ok, msg |-> msg, cmd |-> PipelineCommand("none"), ran |-> NoCall]

\* The resource and the device at the start of an operation.
Now == [res |-> res, dev |-> [dev EXCEPT !.created = <<>>, !.destroyed = <<>>]]

\* PipelineResource(): initDefault on an empty resource.
InitWith(Files) ==
    /\ registry = <<>>
    /\ res = initDefault([baseWidth |-> 0, baseHeight |-> 0,
                          renderTargets |-> <<>>, stages |-> <<>>])
    /\ dev = [live |-> {}, created |-> <<>>, destroyed |-> <<>>]
    /\ doc \in Files
    /\ last = Outcome("none", TRUE, <<>>)

Register ==
    /\ Len(registry) < MaxRegistered
    /\ \E a \in RegisterArgs :
          registry' = registerPipelineCommand(registry, a.name, a.pf, a.ef)
    /\ last' = Outcome("register", TRUE, <<>>)
    /\ UNCHANGED <<res, dev, doc>>

\* load( data, size ): compiled once, finished for every answer of the device.
Load ==
    \E c \in {loadCompile(Now, DocumentFiles[doc], registry)} :
       \E resp \in DeviceAnswers(TargetsToCreate(c)) :
          \E r \in {loadFinish(c, resp)} :
             /\ res' = r.res
             /\ dev' = r.dev
             /\ last' = Outcome("load", r.ok, r.msg)
             /\ UNCHANGED <<registry, doc>>

Resize ==
    \E wh \in ResizeArgs :
       \E resp \in DeviceAnswers(Len(res.renderTargets)) :
          \E r \in {resize(Now, wh[1], wh[2], resp)} :
             /\ res' = r.res
             /\ dev' = r.dev
             /\ last' = Outcome("resize", r.ok, <<>>)
             /\ UNCHANGED <<registry, doc>>

Release ==
    \E r \in {release(Now)} :
       /\ res' = r.res
       /\ dev' = r.dev
       /\ last' = Outcome("release", TRUE, <<>>)
       /\ UNCHANGED <<registry, doc>>

\* The renderer runs an external command of a stage.
Execute ==
    \E i \in 1..Len(res.stages) :
       \E j \in 1..Len(res.stages[i].commands) :
          LET command == res.stages[i].commands[j]
          IN  /\ command.kind = "ExternalCommand"
              /\ last' = [Outcome("execute", TRUE, <<>>)
                             EXCEPT !.cmd = command,
                                    !.ran = executeCommand(registry, command)]
              /\ UNCHANGED <<registry, res, dev, doc>>

\* The resource through its life, with the registry of extensions, over the
\* descriptions that make load fail.
Init == InitWith(ErrorFiles)

Next == Register \/ Load \/ Resize \/ Release \/ Execute

Spec == Init /\ [][Next]_vars

\* The life cycle of the render targets alone: no extension is registered.
InitLife == InitWith(LifeFiles)

NextLife == Load \/ Resize \/ Release

SpecLife == InitLife /\ [][NextLife]_vars

\* The compiler alone: a resource with one declared target is loaded from
\* descriptions with every command node.
InitCompile == InitWith(CompileFiles)

NextCompile == Register \/ Load \/ Execute

SpecCompile == InitCompile /\ [][NextCompile]_vars

\* --------------------------------------------------------- properties ----
\* The description the resource is loaded from, and its parts as the document
\* gives them.
TheDocument == DocumentFiles[doc]

SectionOf(d, section, element) ==
    LET found == SelectSeq(d.root.children, LAMBDA c : c.name = section)
    IN  IF d.xmlError \/ d.root.name # "Pipeline" \/ found = <<>> THEN <<>>
        ELSE SelectSeq(found[1].children, LAMBDA c : c.name = element)

StageElements == SectionOf(TheDocument, "CommandQueue", "Stage")
TargetElements == SectionOf(TheDocument, "Setup", "RenderTarget")

\* The command nodes of the description, as <<stage, position>> pairs.
CommandPlaces ==
    {<<k, j>> \in (1..Len(StageElements)) \X (1..MaxCmds) :
         j <= Len(StageElements[k].children)}
NodeAt(place) == StageElements[place[1]].children[place[2]]
CommandNodes == {NodeAt(place) : place \in CommandPlaces}

BuiltInCommands ==
    {"SwitchTarget", "BindBuffer", "UnbindBuffers", "ClearTarget", "DrawGeometry",
     "DrawQuad", "DoForwardLightLoop", "DoDeferredLightLoop", "SetUniform"}

\* A node whose name is no built-in command and no registered command.
Unknown(node) ==
    /\ node.name \notin BuiltInCommands
    /\ \A e \in 1..Len(registry) : registry[e].comNameString # node.name

\* The last operation was a load, and what it returned.
LoadDone == last.op = "load"
LoadSucceeded == last.op = "load" /\ last.ok
LoadFailed == last.op = "load" /\ ~ last.ok
CreationFailed == <<"Failed to create render target">>
StageError(text) == <<"Error in stage", text>>

\* Target i holds a handle the device returned and has not destroyed since.
Realized(i) ==
    res.renderTargets[i].rendBuf # 0 /\ res.renderTargets[i].rendBuf \in dev.live

\* A flag text that reads as true: "true" or "1", whatever the case.
ReadsAsTrue(node, a) ==
    /\ getAttribute(node, a) # NULL
    /\ \/ stricmp0(getAttribute(node, a), S_true)
       \/ stricmp0(getAttribute(node, a), S_1)

\* The stages whose command list has one command per command node, so that
\* command j was made from node j.
Aligned(k) == Len(res.stages[k].commands) = Len(StageElements[k].children)

\* C1: a load that reports an error leaves the resource in its empty default
\* state: base resolution 320x240, no stages, no render targets.
C1_FailedLoadLeavesDefaults ==
    LoadFailed =>
        /\ res.baseWidth = 320
        /\ res.baseHeight = 240
        /\ res.stages = <<>>
        /\ res.renderTargets = <<>>

\* C1, its case: the creation of the last render target fails after the
\* description was compiled and the other targets were created.
C1_Witness ==
    /\ LoadFailed
    /\ last.msg = CreationFailed
    /\ Len(dev.created) = MaxTargets
    /\ Len(StageElements) > 0

\* C2: in every state every render target's stored handle is non-zero if and
\* only if the target is realized (the handle was returned by the device and
\* not destroyed since).
C2_HandleIffRealized ==
    \A i \in 1..Len(res.renderTargets) :
        (res.renderTargets[i].rendBuf # 0) <=> Realized(i)

\* C3: after resize returns, either every declared render target is realized
\* or none is.
C3_ResizeAllOrNothing ==
    last.op = "resize" =>
        \/ \A i \in 1..Len(res.renderTargets) : Realized(i)
        \/ \A i \in 1..Len(res.renderTargets) : ~ Realized(i)

\* C4: the size asked of the device for a render target is round(base * scale)
\* when the declared size is 0 and round(declared * scale) when it is not, also
\* when the latter rounds to 0.
C4_RequestedSize ==
    (last.op \in {"load", "resize"} /\ Len(dev.created) <= Len(res.renderTargets)) =>
        \A i \in 1..Len(dev.created) :
            LET rt == res.renderTargets[i]
            IN  /\ dev.created[i].width =
                       IF rt.width # 0 THEN ftoi_r(rt.width * rt.scale)
                       ELSE ftoi_r(res.baseWidth * rt.scale)
                /\ dev.created[i].height =
                       IF rt.height # 0 THEN ftoi_r(rt.height * rt.scale)
                       ELSE ftoi_r(res.baseHeight * rt.scale)

\* C5: a command node whose name is no built-in and no registered command is
\* skipped: it does not abort the compilation, and the stage gets one command
\* for each of its other nodes and none for this one, whether the registry is
\* empty or holds other entries.
C5_UnknownCommandSkipped ==
    (LoadDone /\ \E node \in CommandNodes : Unknown(node)) =>
        /\ last.ok \/ last.msg = CreationFailed
        /\ last.ok =>
               \A k \in 1..Len(StageElements) :
                   Len(res.stages[k].commands) =
                       Cardinality({j \in 1..Len(StageElements[k].children) :
                                       ~ Unknown(StageElements[k].children[j])})

\* C6 as stated: the target attribute of SwitchTarget is optional; a node
\* without it compiles like one with an empty target, and only a non-empty
\* target that names no declared render target aborts the compilation.
C6_TargetOptional ==
    (LoadDone /\ \E node \in CommandNodes :
                    node.name = "SwitchTarget" /\ getAttribute(node, "target") = NULL) =>
        (last.ok \/ last.msg = CreationFailed)

\* C6: the target attribute of SwitchTarget is required.  A node without it
\* aborts the compilation with "Missing SwitchTarget attribute 'target'"; a
\* non-empty target that names no declared render target aborts it too; an
\* empty target compiles to a command with a null render target, and a declared
\* one to a command that points to that target.
C6_TargetRequired ==
    LoadDone =>
        \A place \in CommandPlaces :
            LET node == NodeAt(place)
                target == getAttribute(node, "target")
                declared == {i \in 1..Len(TargetElements) :
                                getAttribute(TargetElements[i], "id") = target}
            IN  node.name = "SwitchTarget" =>
                    IF target = NULL
                    THEN ~ last.ok /\
                         last.msg = StageError("Missing SwitchTarget attribute 'target'")
                    ELSE IF target # S_empty /\ declared = {}
                    THEN ~ last.ok /\
                         last.msg = StageError(
                             "Reference to undefined render target in SwitchTarget")
                    ELSE last.ok =>
                            LET command == res.stages[place[1]].commands[place[2]]
                            IN  /\ Aligned(place[1])
                                /\ command.kind = "SwitchTarget"
                                /\ Len(command.params) = 1
                                /\ command.params[1].ptr =
                                       IF target = S_empty THEN 0
                                       ELSE CHOOSE i \in declared :
                                                \A j \in declared : i <= j

\* C6, its case: a SwitchTarget node without a target attribute was compiled.
C6_Witness ==
    /\ LoadFailed
    /\ \E node \in CommandNodes :
          node.name = "SwitchTarget" /\ getAttribute(node, "target") = NULL
    /\ last.msg = StageError("Missing SwitchTarget attribute 'target'")

\* C7: every flag of the description (depthBuf of RenderTarget; depthBuf and
\* colBuf0..colBuf3 of ClearTarget; noShadows of the two light loops) is parsed
\* as true exactly when its text is "true" or "1", whatever the case.
C7_FlagsReadAlike ==
    LoadSucceeded =>
        /\ \A i \in 1..Len(TargetElements) :
               res.renderTargets[i].hasDepthBuf = ReadsAsTrue(TargetElements[i], "depthBuf")
        /\ \A place \in CommandPlaces :
               LET node == NodeAt(place)
                   params == res.stages[place[1]].commands[place[2]].params
               IN  Aligned(place[1]) =>
                       /\ node.name = "ClearTarget" =>
                              /\ params[1].b = ReadsAsTrue(node, "depthBuf")
                              /\ params[2].b = ReadsAsTrue(node, "colBuf0")
                              /\ params[3].b = ReadsAsTrue(node, "colBuf1")
                              /\ params[4].b = ReadsAsTrue(node, "colBuf2")
                              /\ params[5].b = ReadsAsTrue(node, "colBuf3")
                       /\ node.name = "DoForwardLightLoop" =>
                              params[3].b = ReadsAsTrue(node, "noShadows")
                       /\ node.name = "DoDeferredLightLoop" =>
                              params[2].b = ReadsAsTrue(node, "noShadows")

\* C8: after a successful load the number of stages is the number of Stage
\* elements of the CommandQueue, and stage i has the id of the i-th of them.
C8_StagesInDocumentOrder ==
    LoadSucceeded =>
        /\ getElemCount(res) = Len(StageElements)
        /\ \A i \in 1..Len(StageElements) :
               getElemParamStr(res, i - 1) = getAttributeDef(StageElements[i], "id", S_empty)

\* C8, its case: a description with several Stage elements and an element
\* between them that is no Stage was loaded.
C8_Witness ==
    /\ LoadSucceeded
    /\ Len(StageElements) = 2
    /\ \E q \in 1..Len(TheDocument.root.children) :
          /\ TheDocument.root.children[q].name = "CommandQueue"
          /\ Len(TheDocument.root.children[q].children) > Len(StageElements)
    /\ getElemParamStr(res, 1) = StageId(2)

\* C9: a load that fails before the render targets are created (a BindBuffer
\* node without sampler, sourceRT or bufIndex, or another compile error) has
\* asked the device for no render buffer.
C9_CompileBeforeCreate ==
    (LoadFailed /\ last.msg # CreationFailed) => dev.created = <<>>

\* C9, its case: the Setup section declared render targets and a BindBuffer
\* node of a stage lacks an attribute.
C9_Witness ==
    /\ LoadFailed
    /\ last.msg = StageError("Missing BindBuffer attribute")
    /\ Len(TargetElements) = MaxTargets
    /\ \E node \in CommandNodes :
          node.name = "BindBuffer" /\ getAttribute(node, "sampler") = NULL

\* C10: executing a command a registered entry parsed runs the execute callback
\* of that entry, also when other entries were registered since, and never an
\* index outside the registry.
C10_ExecuteRunsParsingEntry ==
    (last.op = "execute" /\ last.cmd.externalCommandID # -1) =>
        /\ last.ran.called \in ExecFuncs
        /\ last.ran.uid = last.cmd.parsedBy

\* C10, its case: a command parsed by the first entry is executed after a
\* second entry was registered.
C10_Witness ==
    /\ last.op = "execute"
    /\ last.cmd.externalCommandID = 0
    /\ last.cmd.parsedBy = 1
    /\ last.ran.uid = 1
    /\ last.cmd.parsedAmong = 1
    /\ Len(registry) = 2

\* C11: after any load no two render targets of the resource have the same
\* id, also when the Setup section declares an id twice.
C11_TargetIdsUnique ==
    LoadDone =>
        \A i \in 1..Len(res.renderTargets) : \A j \in 1..Len(res.renderTargets) :
            res.renderTargets[i].id = res.renderTargets[j].id => i = j

\* C12: every handle the device returned is destroyed at most once:
\* destroyRenderBuffer is never called with a handle that is not live.
C12_NoDoubleDestroy ==
    \A k \in 1..Len(dev.destroyed) : dev.destroyed[k].wasLive

====
